---- MODULE Spec2Model ----
(***************************************************************************)
(* A model of the nick server's data package (NickData, its validation,   *)
(* and BoltRepository) in src/data/data_test.go, lines 458-712.            *)
(*                                                                         *)
(* Byte strings are sequences of byte values.  The bolt database is two    *)
(* buckets, each a function from keys to values; db.Update runs its        *)
(* function under bolt's single writer lock on a working copy that is      *)
(* committed when the function returns nil and dropped otherwise.          *)
(*                                                                         *)
(* Libraries outside the repository are represented by stand-ins:          *)
(*   - scrypto.NewPublicKey accepts exactly the byte strings in Keys;      *)
(*   - PublicKey.Hash is an injective map to IdLength bytes;               *)
(*   - node.ValidateId accepts exactly the byte strings of IdLength bytes; *)
(*   - a signature is the pair (signing key, signed bytes), and verifies   *)
(*     under a public key iff both match;                                  *)
(*   - a time.Time is its Unix second and nanosecond, the zero Time being  *)
(*     the instant at second ZeroUnix (really -62135596800, which does not *)
(*     fit the model checker's integers).                                  *)
(***************************************************************************)
EXTENDS Integers, Sequences, FiniteSets, TLC

(* ---------------------------- bounds ----------------------------------- *)

\* number of callers that make Put after Put
NumCallers == 1
\* number of callers that race, each with one Put
NumRacers == 2
\* claims carry Unix seconds 1..MaxSec
MaxSec == 2
\* nicknames handed to ValidateNick: every text of up to MaxNickText
\* characters, and long ones around the upper limit
MaxNickText == 3

(* --------------------------- constants --------------------------------- *)

minNickLength == 3
maxNickLength == 20
\* length in bytes of a node id (digest of the public key)
IdLength == 32
\* stand-in for the Unix second of the zero time.Time
ZeroUnix == -1

(* ------------------------- byte-string helpers ------------------------- *)

\* fmt.Sprintf("%d", n) as ASCII bytes
RECURSIVE DecimalNat(_)
DecimalNat(n) ==
    IF n < 10 THEN <<48 + n>> ELSE DecimalNat(n \div 10) \o <<48 + (n % 10)>>

Decimal(n) == IF n < 0 THEN <<45>> \o DecimalNat(0 - n) ELSE DecimalNat(n)

HexDigit(n) == IF n < 10 THEN 48 + n ELSE 87 + n

HexValue(ch) == IF ch < 58 THEN ch - 48 ELSE ch - 87

\* node.ID's JSON form: lowercase hexadecimal of the bytes
HexEncode(s) ==
    [i \in 1..(2 * Len(s)) |->
        IF i % 2 = 1 THEN HexDigit(s[(i + 1) \div 2] \div 16)
                     ELSE HexDigit(s[i \div 2] % 16)]

HexDecode(h) ==
    [i \in 1..(Len(h) \div 2) |-> 16 * HexValue(h[2 * i - 1]) + HexValue(h[2 * i])]

(* ------------------------------ time ----------------------------------- *)

ZeroTime == [sec |-> ZeroUnix, nsec |-> 0]

IsZero(t) == t.sec = ZeroUnix /\ t.nsec = 0

Unix(t) == t.sec

\* After with its operands exchanged
After_Reversed(t, u) == u.sec > t.sec \/ (u.sec = t.sec /\ u.nsec > t.nsec)

\* After that also holds of equal instants
After_OrEqual(t, u) == t.sec > u.sec \/ (t.sec = u.sec /\ t.nsec >= u.nsec)

\* After that never holds
After_Never(t, u) == FALSE

\* t.After(u)
After(t, u) == t.sec > u.sec \/ (t.sec = u.sec /\ t.nsec > u.nsec)

(* ------------------------- keys and signatures ------------------------- *)

\* the public keys that decode: two key pairs submit claims
Keys == {<<1>>, <<2>>}

NewPublicKeyOk(bytes) == bytes \in Keys

Hash(publicKey) == [i \in 1..IdLength |-> publicKey[1]]

ValidateId(id) == Len(id) = IdLength

CompareId(a, b) == a = b

NoSignature == [signer |-> <<>>, data |-> <<>>]

Sign(key, data) == [signer |-> key, data |-> data]

VerifySignature(publicKey, data, signature) ==
    signature.signer = publicKey /\ signature.data = data

(* ------------------------------ NickData ------------------------------ *)

\* GetDataToSign: decimal Unix seconds, then the raw id, then the nick
GetDataToSign(n) == Decimal(Unix(n.Time)) \o n.Id \o n.Nick

IsLetter(ch) == (ch >= 65 /\ ch <= 90) \/ (ch >= 97 /\ ch <= 122)

IsDigit(ch) == ch >= 48 /\ ch <= 57

\* the class written as one range from A to z
IsNickChar_RangeAz(ch) == (ch >= 65 /\ ch <= 122) \/ IsDigit(ch) \/ ch \in {95, 45}

\* the class [a-zA-Z0-9\_\-\[\]]
IsNickChar(ch) == IsLetter(ch) \/ IsDigit(ch) \/ ch \in {95, 45, 91, 93}

\* ^[a-zA-Z]{1}[a-zA-Z0-9\_\-\[\]]+$
nickRegexp(nick) ==
    /\ Len(nick) >= 2
    /\ IsLetter(nick[1])
    /\ \A i \in 2..Len(nick) : IsNickChar(nick[i])

ValidateNick(nick) ==
    IF Len(nick) < minNickLength THEN "nick too short"
    ELSE IF Len(nick) > maxNickLength THEN "nick too long"
    ELSE IF ~nickRegexp(nick) THEN "nick does not match the regular expression"
    ELSE "nil"

\* Validate with the check of the nick ahead of the checks of the id
Validate_NickFirst(n) ==
    IF ~NewPublicKeyOk(n.PublicKey) THEN "could not read the public key"
    ELSE IF ValidateNick(n.Nick) # "nil" THEN "invalid nick"
    ELSE IF ~ValidateId(n.Id) THEN "id is invalid"
    ELSE IF ~CompareId(Hash(n.PublicKey), n.Id) THEN "id does not match the public key"
    ELSE IF IsZero(n.Time) THEN "time is zero"
    ELSE IF ~VerifySignature(n.PublicKey, GetDataToSign(n), n.Signature)
         THEN "could not validate the signature"
    ELSE "nil"

\* Validate without the check of the time
Validate_NoTimeCheck(n) ==
    IF ~NewPublicKeyOk(n.PublicKey) THEN "could not read the public key"
    ELSE IF ~ValidateId(n.Id) THEN "id is invalid"
    ELSE IF ~CompareId(Hash(n.PublicKey), n.Id) THEN "id does not match the public key"
    ELSE IF ValidateNick(n.Nick) # "nil" THEN "invalid nick"
    ELSE IF ~VerifySignature(n.PublicKey, GetDataToSign(n), n.Signature)
         THEN "could not validate the signature"
    ELSE "nil"

Validate(n) ==
    IF ~NewPublicKeyOk(n.PublicKey) THEN "could not read the public key"
    ELSE IF ~ValidateId(n.Id) THEN "id is invalid"
    ELSE IF ~CompareId(Hash(n.PublicKey), n.Id) THEN "id does not match the public key"
    ELSE IF ValidateNick(n.Nick) # "nil" THEN "invalid nick"
    ELSE IF IsZero(n.Time) THEN "time is zero"
    ELSE IF ~VerifySignature(n.PublicKey, GetDataToSign(n), n.Signature)
         THEN "could not validate the signature"
    ELSE "nil"

\* json.Marshal of a NickData: the id in hexadecimal, the time as RFC3339
\* with nanoseconds, the byte fields as base64 text
Marshal(n) ==
    [id        |-> HexEncode(n.Id),
     nick      |-> n.Nick,
     time      |-> [sec |-> n.Time.sec, nsec |-> n.Time.nsec],
     publicKey |-> <<"base64", n.PublicKey>>,
     signature |-> <<"base64", n.Signature>>]

\* unmarshalling that loses the signature
unmarshalNickData_NoSignature(v) ==
    [Id        |-> HexDecode(v.id),
     Nick      |-> v.nick,
     Time      |-> [sec |-> v.time.sec, nsec |-> v.time.nsec],
     PublicKey |-> v.publicKey[2],
     Signature |-> NoSignature]

unmarshalNickData(v) ==
    [Id        |-> HexDecode(v.id),
     Nick      |-> v.nick,
     Time      |-> [sec |-> v.time.sec, nsec |-> v.time.nsec],
     PublicKey |-> v.publicKey[2],
     Signature |-> v.signature[2]]

(* -------------------------------- errors ------------------------------- *)

InvalidNickDataErr == "invalid nick data"
NewerNickDataPresentErr == "newer nick data is available"
NickConflictErr == "nick is already taken"
InvalidNodeIdErr == "invalid node id"
UpdateFailedErr == "update failed"

(* ----------------------------- bolt buckets ---------------------------- *)

EmptyBucket == <<>>

BucketGet(b, key) ==
    IF key \in DOMAIN b THEN [found |-> TRUE, value |-> b[key]]
                        ELSE [found |-> FALSE]

\* a put that leaves the bucket with the one key
BucketPut_Alone(b, key, value) == [k \in {key} |-> value]

\* a put that does not overwrite an existing key
BucketPut_KeepExisting(b, key, value) ==
    IF key \in DOMAIN b THEN b ELSE [k \in (DOMAIN b) \cup {key} |-> IF k = key THEN value ELSE b[k]]

BucketPut(b, key, value) ==
    [k \in (DOMAIN b) \cup {key} |-> IF k = key THEN value ELSE b[k]]

\* places at which the storage engine can fail a write transaction
Failures == {"none", "nicks put", "nick data put", "commit"}

(* ------------------------------ repository ----------------------------- *)

getNickData(nickDataB, id) ==
    LET v == BucketGet(nickDataB, id) IN
    IF v.found THEN [found |-> TRUE, nickData |-> unmarshalNickData(v.value)]
               ELSE [found |-> FALSE]

\* Get without the check of the id
Get_NoIdCheck(nickDataB, id) ==
    LET nd == getNickData(nickDataB, id) IN
    IF nd.found THEN [found |-> TRUE, nickData |-> nd.nickData, err |-> "nil"]
                ELSE [found |-> FALSE, err |-> "nil"]

\* Get: the pair (result, error)
Get(nickDataB, id) ==
    IF ~ValidateId(id) THEN [found |-> FALSE, err |-> InvalidNodeIdErr]
    ELSE LET nd == getNickData(nickDataB, id) IN
         IF nd.found THEN [found |-> TRUE, nickData |-> nd.nickData, err |-> "nil"]
                     ELSE [found |-> FALSE, err |-> "nil"]

\* whether Get gets as far as opening the read transaction
GetView(id) == ValidateId(id)

\* byte-wise order of keys, the order of a bucket's ForEach
KeyLess(a, b) ==
    \/ \E i \in 1..Len(a) :
          /\ i <= Len(b) /\ a[i] < b[i]
          /\ \A j \in 1..(i - 1) : a[j] = b[j]
    \/ Len(a) < Len(b) /\ \A j \in 1..Len(a) : a[j] = b[j]

RECURSIVE ForEach(_, _)
ForEach(b, keys) ==
    IF keys = {} THEN <<>>
    ELSE LET k == CHOOSE x \in keys : \A y \in keys \ {x} : KeyLess(x, y)
         IN  <<b[k]>> \o ForEach(b, keys \ {k})

\* List that starts from a nil slice
List_NilSlice(nickDataB) ==
    LET vs == ForEach(nickDataB, DOMAIN nickDataB) IN
    [isNil |-> Len(vs) = 0,
     list  |-> [i \in 1..Len(vs) |-> unmarshalNickData(vs[i])],
     err   |-> "nil"]

\* List: the pair (slice, error); the slice starts as make([]NickData, 0)
List(nickDataB) ==
    LET vs == ForEach(nickDataB, DOMAIN nickDataB) IN
    [isNil |-> FALSE,
     list  |-> [i \in 1..Len(vs) |-> unmarshalNickData(vs[i])],
     err   |-> "nil"]

\* Put that ignores the result of Validate
PutCheck_AcceptAll(nickData) == "nil"

\* Put, before the transaction: validation and marshalling
PutCheck(nickData) ==
    IF Validate(nickData) # "nil" THEN InvalidNickDataErr ELSE "nil"

\* the transaction function without the check for newer nick data
PutTx_NoStaleCheck(nicksB, nickDataB, nickData, value, fail) ==
    LET existingId == BucketGet(nicksB, nickData.Nick)
        nicks1 == BucketPut(nicksB, nickData.Id, value)
        nickData1 == BucketPut(nickDataB, nickData.Id, value)
    IN  IF existingId.found /\ ~CompareId(existingId.value, nickData.Id)
        THEN [err |-> NickConflictErr, nicks |-> nicksB, nickdata |-> nickDataB]
        ELSE IF fail = "nicks put"
        THEN [err |-> "nicks bucket put failed", nicks |-> nicksB, nickdata |-> nickDataB]
        ELSE IF fail = "nick data put"
        THEN [err |-> "nick data bucket put failed", nicks |-> nicks1, nickdata |-> nickDataB]
        ELSE [err |-> "nil", nicks |-> nicks1, nickdata |-> nickData1]

\* the function Put passes to db.Update, run on the transaction's buckets
PutTx(nicksB, nickDataB, nickData, value, fail) ==
    LET existingId == BucketGet(nicksB, nickData.Nick)
        previousNickData == getNickData(nickDataB, nickData.Id)
        nicks1 == BucketPut(nicksB, nickData.Id, value)
        nickData1 == BucketPut(nickDataB, nickData.Id, value)
    IN  IF existingId.found /\ ~CompareId(existingId.value, nickData.Id)
        THEN [err |-> NickConflictErr, nicks |-> nicksB, nickdata |-> nickDataB]
        ELSE IF previousNickData.found
                /\ After(previousNickData.nickData.Time, nickData.Time)
        THEN [err |-> NewerNickDataPresentErr, nicks |-> nicksB, nickdata |-> nickDataB]
        ELSE IF fail = "nicks put"
        THEN [err |-> "nicks bucket put failed", nicks |-> nicksB, nickdata |-> nickDataB]
        ELSE IF fail = "nick data put"
        THEN [err |-> "nick data bucket put failed", nicks |-> nicks1, nickdata |-> nickDataB]
        ELSE [err |-> "nil", nicks |-> nicks1, nickdata |-> nickData1]

\* db.Update that commits whatever the function wrote, whatever it returns
dbUpdate_NoRollback(nicksB, nickDataB, nickData, value, fail) ==
    LET tx == PutTx(nicksB, nickDataB, nickData, value, fail) IN
    IF tx.err # "nil" THEN tx
    ELSE IF fail = "commit" THEN [tx EXCEPT !.err = "commit failed"]
    ELSE tx

\* db.Update: commit the transaction's buckets when the function returns
\* nil and the commit succeeds, roll back otherwise
dbUpdate(nicksB, nickDataB, nickData, value, fail) ==
    LET tx == PutTx(nicksB, nickDataB, nickData, value, fail) IN
    IF tx.err # "nil" THEN [err |-> tx.err, nicks |-> nicksB, nickdata |-> nickDataB]
    ELSE IF fail = "commit" THEN [err |-> "commit failed", nicks |-> nicksB, nickdata |-> nickDataB]
    ELSE tx

\* Put, from db.Update to its return
PutUpdate(nicksB, nickDataB, nickData, fail) ==
    LET u == dbUpdate(nicksB, nickDataB, nickData, Marshal(nickData), fail) IN
    IF u.err = "nil" THEN u
    ELSE IF u.err = NickConflictErr \/ u.err = NewerNickDataPresentErr THEN u
    ELSE [u EXCEPT !.err = UpdateFailedErr]

(* -------------------------------- inputs ------------------------------- *)

NoClaim ==
    [Id |-> <<>>, Nick |-> <<>>, Time |-> ZeroTime, PublicKey |-> <<>>,
     Signature |-> NoSignature]

withValidSignature(key, n) == [n EXCEPT !.Signature = Sign(key, GetDataToSign(n))]

MakeClaim(key, nick, time) ==
    withValidSignature(key,
        [Id |-> Hash(key), Nick |-> nick, Time |-> time, PublicKey |-> key,
         Signature |-> NoSignature])

\* "aaa" and "a_-[]"
GoodNicks == {<<97, 97, 97>>, <<97, 95, 45, 91, 93>>}

\* "", "aa" and "_bcde"
BadNicks == {<<>>, <<97, 97>>, <<95, 98, 99, 100, 101>>}

\* whole seconds, as decoded from a request without a fraction
Times == {[sec |-> s, nsec |-> 0] : s \in 1..MaxSec}

ValidClaims == {MakeClaim(k, n, t) : k \in Keys, n \in GoodNicks, t \in Times}

BaseClaim == MakeClaim(<<1>>, <<97, 97, 97>>, [sec |-> 1, nsec |-> 0])

\* claims that are not well-formed or not authentic
InvalidClaims ==
    {NoClaim,
     [BaseClaim EXCEPT !.Signature = NoSignature],
     [BaseClaim EXCEPT !.Signature = Sign(<<2>>, GetDataToSign(BaseClaim))],
     [BaseClaim EXCEPT !.Nick = <<97, 95, 45, 91, 93>>],
     [BaseClaim EXCEPT !.Id = Hash(<<2>>)],
     [BaseClaim EXCEPT !.Time = [sec |-> 2, nsec |-> 0]],
     [BaseClaim EXCEPT !.PublicKey = <<>>],
     [BaseClaim EXCEPT !.PublicKey = <<0>>],
     withValidSignature(<<1>>, [BaseClaim EXCEPT !.Id = <<>>]),
     withValidSignature(<<1>>, [BaseClaim EXCEPT !.Time = ZeroTime]),
     withValidSignature(<<2>>, [BaseClaim EXCEPT !.PublicKey = <<2>>])}
    \cup {withValidSignature(<<1>>, [BaseClaim EXCEPT !.Nick = n]) : n \in BadNicks}

ClaimInputs == ValidClaims \cup InvalidClaims

(* -------------------------------- state -------------------------------- *)

VARIABLES
    nicks,      \* bucket "nicks" as committed
    nickdata,   \* bucket "nickdata" as committed
    pc,         \* per caller: "idle", or "update" between validation and db.Update
    arg,        \* per caller: the claim passed to Put
    ret,        \* per caller: what its last Put returned, "none" before any
    got,        \* the answer of the call being answered, NoAnswer otherwise
    accepted    \* history: per identity, the claim of its latest Put that
                \* returned nil

vars == <<nicks, nickdata, pc, arg, ret, got, accepted>>

NoAnswer == [op |-> "none"]

\* the callers of the repository
Procs == DOMAIN pc

\* a freshly opened repository with n callers
Opened(n) ==
    /\ nicks = EmptyBucket
    /\ nickdata = EmptyBucket
    /\ pc = [p \in 1..n |-> "idle"]
    /\ arg = [p \in 1..n |-> NoClaim]
    /\ ret = [p \in 1..n |-> "none"]
    /\ got = NoAnswer
    /\ accepted = <<>>

Init == Opened(NumCallers)

RaceInit == Opened(NumRacers)

\* a Put whose validation also refuses a claim of an identity that has a
\* stored claim
PutEnter_KnownIdInvalid(p, nickData, keep) ==
    /\ pc[p] = "idle"
    /\ LET err == IF nickData.Id \in DOMAIN nickdata THEN InvalidNickDataErr
                  ELSE PutCheck(nickData) IN
       IF err # "nil"
       THEN /\ pc' = pc
            /\ ret' = [ret EXCEPT ![p] = err]
            /\ arg' = [arg EXCEPT ![p] = IF keep THEN nickData ELSE NoClaim]
       ELSE /\ pc' = [pc EXCEPT ![p] = "update"]
            /\ ret' = [ret EXCEPT ![p] = "none"]
            /\ arg' = [arg EXCEPT ![p] = nickData]
    /\ UNCHANGED <<nicks, nickdata, got, accepted>>

\* Put up to db.Update; keep says whether the caller's record of the
\* argument outlives the call
PutEnter(p, nickData, keep) ==
    /\ pc[p] = "idle"
    /\ LET err == PutCheck(nickData) IN
       IF err # "nil"
       THEN /\ pc' = pc
            /\ ret' = [ret EXCEPT ![p] = err]
            /\ arg' = [arg EXCEPT ![p] = IF keep THEN nickData ELSE NoClaim]
       ELSE /\ pc' = [pc EXCEPT ![p] = "update"]
            /\ ret' = [ret EXCEPT ![p] = "none"]
            /\ arg' = [arg EXCEPT ![p] = nickData]
    /\ UNCHANGED <<nicks, nickdata, got, accepted>>

\* db.Update and the return of Put; the writer lock makes it one step
PutFinish(p, fail, keep) ==
    /\ pc[p] = "update"
    /\ LET u == PutUpdate(nicks, nickdata, arg[p], fail) IN
       /\ nicks' = u.nicks
       /\ nickdata' = u.nickdata
       /\ ret' = [ret EXCEPT ![p] = u.err]
       /\ accepted' =
            IF u.err = "nil"
            THEN [id \in (DOMAIN accepted) \cup {arg[p].Id} |->
                    IF id = arg[p].Id THEN arg[p] ELSE accepted[id]]
            ELSE accepted
    /\ pc' = [pc EXCEPT ![p] = "idle"]
    /\ arg' = [arg EXCEPT ![p] = IF keep THEN arg[p] ELSE NoClaim]
    /\ got' = got

Enter(p) == \E c \in ClaimInputs : PutEnter(p, c, FALSE)

Update(p) == \E fail \in Failures : PutFinish(p, fail, FALSE)

Next == \E p \in Procs : Enter(p) \/ Update(p)

Spec == Init /\ [][Next]_vars

\* every caller makes one Put and keeps its argument
RaceEnter(p) == ret[p] = "none" /\ \E c \in ClaimInputs : PutEnter(p, c, TRUE)

RaceUpdate(p) == \E fail \in Failures : PutFinish(p, fail, TRUE)

RaceNext == \E p \in Procs : RaceEnter(p) \/ RaceUpdate(p)

RaceSpec == RaceInit /\ [][RaceNext]_vars

\* ids handed to Get: the two identities, an id nobody registered, the
\* nil id and "id"
IdInputs == {Hash(<<1>>), Hash(<<2>>), Hash(<<3>>), <<>>, <<105, 100>>}

\* a call of Get, answered from the committed buckets
GetCall(id) ==
    /\ got = NoAnswer
    /\ got' = [op |-> "Get", id |-> id, view |-> GetView(id), res |-> Get(nickdata, id)]
    /\ UNCHANGED <<nicks, nickdata, pc, arg, ret, accepted>>

\* a call of List, answered from the committed buckets
ListCall ==
    /\ got = NoAnswer
    /\ got' = [op |-> "List", res |-> List(nickdata)]
    /\ UNCHANGED <<nicks, nickdata, pc, arg, ret, accepted>>

\* the answer reaches its caller
Respond ==
    /\ got # NoAnswer
    /\ got' = NoAnswer
    /\ UNCHANGED <<nicks, nickdata, pc, arg, ret, accepted>>

Reads == (\E id \in IdInputs : GetCall(id)) \/ ListCall

Writes == got = NoAnswer /\ \E p \in Procs : Enter(p) \/ Update(p)

ReadNext == Writes \/ Reads \/ Respond

\* Puts with Get and List between their steps
ReadSpec == Init /\ [][ReadNext]_vars

\* a z Z 5 _ - [ ] and the neighbours @ \ ^ ` { / : of the allowed ranges
NickChars == {97, 122, 90, 53, 95, 45, 91, 93, 64, 92, 94, 96, 123, 47, 58}

RECURSIVE Texts(_)
Texts(n) ==
    IF n = 0 THEN {<<>>}
    ELSE LET shorter == Texts(n - 1) IN
         shorter \cup {Append(t, ch) : t \in {x \in shorter : Len(x) = n - 1}, ch \in NickChars}

\* texts of maxNickLength - 1, maxNickLength and maxNickLength + 1
\* characters: a first and a last character around the letter a
LongNicks ==
    {[i \in 1..n |-> IF i = 1 THEN f ELSE IF i = n THEN l ELSE 97] :
        n \in (maxNickLength - 1)..(maxNickLength + 1), f \in NickChars, l \in NickChars}

NickInputs == Texts(MaxNickText) \cup LongNicks \cup GoodNicks \cup BadNicks

\* an id with its last byte altered
TamperedId(id) == [id EXCEPT ![Len(id)] = 0]

\* signatures a claim can arrive with: none, or one made by either key over
\* the claim as it is or as it was before a nick or time was altered
SignatureInputs(n) ==
    {NoSignature} \cup
    {Sign(k, GetDataToSign([n EXCEPT !.Nick = nick, !.Time = t])) :
        k \in Keys, nick \in {n.Nick, <<97, 97, 97>>}, t \in {n.Time, [sec |-> 1, nsec |-> 0]}}

\* claims handed to Validate: every combination of the fields
ValidateInputs ==
    UNION {
        {[Id |-> id, Nick |-> nick, Time |-> t, PublicKey |-> k, Signature |-> sig] :
            sig \in SignatureInputs([Id |-> id, Nick |-> nick, Time |-> t,
                                     PublicKey |-> k, Signature |-> NoSignature])} :
        id \in {Hash(<<1>>), Hash(<<2>>), TamperedId(Hash(<<1>>)), <<>>},
        nick \in GoodNicks \cup BadNicks,
        t \in Times \cup {ZeroTime},
        k \in Keys \cup {<<>>, <<0>>} }

\* a call of ValidateNick
ValidateNickCall ==
    /\ got = NoAnswer
    /\ \E nick \in NickInputs :
          got' = [op |-> "ValidateNick", nick |-> nick, err |-> ValidateNick(nick)]
    /\ UNCHANGED <<nicks, nickdata, pc, arg, ret, accepted>>

\* a call of NickData.Validate
ValidateCall ==
    /\ got = NoAnswer
    /\ \E n \in ValidateInputs :
          got' = [op |-> "Validate", claim |-> n, err |-> Validate(n)]
    /\ UNCHANGED <<nicks, nickdata, pc, arg, ret, accepted>>

ValidateNext == ValidateNickCall \/ ValidateCall \/ Respond

\* the validator on its own
ValidateSpec == Init /\ [][ValidateNext]_vars

(* ------------------------------- the API ------------------------------- *)

NewError(code, message) == [code |-> code, message |-> message]

InternalServerError == NewError(500, "Internal server error.")
BadRequest == NewError(400, "Bad request.")
NotFound == NewError(404, "Not found.")

WithMessage(err, message) == NewError(err.code, message)

NoError == [code |-> 0, message |-> "nil"]

\* isClientError without the invalid node id
isClientError_NoNodeId(err) ==
    err = InvalidNickDataErr \/ err = NewerNickDataPresentErr \/ err = NickConflictErr

isClientError(err) ==
    \/ err = InvalidNickDataErr
    \/ err = NewerNickDataPresentErr
    \/ err = NickConflictErr
    \/ err = InvalidNodeIdErr

\* ".json"
DotJson == <<46, 106, 115, 111, 110>>

TrimSuffix(s, suffix) ==
    IF Len(s) >= Len(suffix) /\ SubSeq(s, Len(s) - Len(suffix) + 1, Len(s)) = suffix
    THEN SubSeq(s, 1, Len(s) - Len(suffix))
    ELSE s

getParamString(param) == TrimSuffix(param, DotJson)

\* hex.DecodeString: digits 0-9, a-f and A-F, two for each byte
fromHexChar(ch) ==
    IF ch >= 48 /\ ch <= 57 THEN ch - 48
    ELSE IF ch >= 97 /\ ch <= 102 THEN ch - 97 + 10
    ELSE IF ch >= 65 /\ ch <= 70 THEN ch - 65 + 10
    ELSE -1

DecodeString(s) ==
    IF Len(s) % 2 = 1 \/ \E i \in 1..Len(s) : fromHexChar(s[i]) = -1
    THEN [ok |-> FALSE]
    ELSE [ok |-> TRUE,
          bytes |-> [i \in 1..(Len(s) \div 2) |->
                        16 * fromHexChar(s[2 * i - 1]) + fromHexChar(s[2 * i])]]

\* what a handler returns: the response, the error and whether it called the
\* repository
Handled(called, response, apiErr) ==
    [called |-> called, response |-> response, apiErr |-> apiErr]

NilResponse == [isNil |-> TRUE]

\* GetNick that looks at the result before the error
GetNick_ResultFirst(param, getReturn, getErr) ==
    LET nodeId == DecodeString(getParamString(param)) IN
    IF ~nodeId.ok THEN Handled(FALSE, NilResponse, WithMessage(BadRequest, "Invalid node ID."))
    ELSE IF getReturn.isNil THEN Handled(TRUE, NilResponse, NotFound)
    ELSE IF getErr # "nil" THEN
        IF isClientError(getErr) THEN Handled(TRUE, NilResponse, WithMessage(BadRequest, getErr))
        ELSE Handled(TRUE, NilResponse, InternalServerError)
    ELSE Handled(TRUE, getReturn, NoError)

\* handler.GetNick on the path parameter, with what the repository's Get
\* returns when called
GetNick(param, getReturn, getErr) ==
    LET nodeId == DecodeString(getParamString(param)) IN
    IF ~nodeId.ok THEN Handled(FALSE, NilResponse, WithMessage(BadRequest, "Invalid node ID."))
    ELSE IF getErr # "nil" THEN
        IF isClientError(getErr) THEN Handled(TRUE, NilResponse, WithMessage(BadRequest, getErr))
        ELSE Handled(TRUE, NilResponse, InternalServerError)
    ELSE IF getReturn.isNil THEN Handled(TRUE, NilResponse, NotFound)
    ELSE Handled(TRUE, getReturn, NoError)

\* request bodies: none, one that cannot be read, and the texts of an empty
\* body, an array, an empty object, null and a claim
Bodies == {"nil", "read error", "", "[]", "{}", "null", "claim"}

\* json.Unmarshal into a NickData succeeds on an object and on null
UnmarshalOk(body) == body \in {"{}", "null", "claim"}

\* PutNick that goes on to Put whatever json.Unmarshal returned
PutNick_NoDecodeCheck(body, putErr) ==
    IF body = "nil" THEN Handled(FALSE, NilResponse, BadRequest)
    ELSE IF body = "read error" THEN Handled(FALSE, NilResponse, BadRequest)
    ELSE IF putErr # "nil" THEN
        IF isClientError(putErr) THEN Handled(TRUE, NilResponse, WithMessage(BadRequest, putErr))
        ELSE Handled(TRUE, NilResponse, InternalServerError)
    ELSE Handled(TRUE, NilResponse, NoError)

\* handler.PutNick on the body, with what the repository's Put returns when
\* called
PutNick(body, putErr) ==
    IF body = "nil" THEN Handled(FALSE, NilResponse, BadRequest)
    ELSE IF body = "read error" THEN Handled(FALSE, NilResponse, BadRequest)
    ELSE IF ~UnmarshalOk(body) THEN Handled(FALSE, NilResponse, BadRequest)
    ELSE IF putErr # "nil" THEN
        IF isClientError(putErr) THEN Handled(TRUE, NilResponse, WithMessage(BadRequest, putErr))
        ELSE Handled(TRUE, NilResponse, InternalServerError)
    ELSE Handled(TRUE, NilResponse, NoError)

\* api.Call: the status code and the body written for what the handler
\* returned
Call(h) ==
    IF h.apiErr # NoError
    THEN [called |-> h.called, code |-> h.apiErr.code,
          body |-> [code |-> h.apiErr.code, message |-> h.apiErr.message]]
    ELSE [called |-> h.called, code |-> 200,
          body |-> IF h.response.isNil THEN [null |-> TRUE]
                   ELSE Marshal(h.response.nickData)]

\* errors a Repository can return
RepositoryErrors ==
    {"nil", InvalidNickDataErr, NewerNickDataPresentErr, NickConflictErr,
     InvalidNodeIdErr, UpdateFailedErr, "some error"}

\* "abcd", "ABCD", "6964", "jfka", "abc", "abcd.json", "jfka.json"
IdParams ==
    {<<97, 98, 99, 100>>, <<65, 66, 67, 68>>, <<54, 57, 54, 52>>,
     <<106, 102, 107, 97>>, <<97, 98, 99>>,
     <<97, 98, 99, 100>> \o DotJson, <<106, 102, 107, 97>> \o DotJson}

GetReturns == {NilResponse} \cup {[isNil |-> FALSE, nickData |-> c] : c \in ValidClaims}

\* PUT /nicks
PutNickCall ==
    /\ got = NoAnswer
    /\ \E body \in Bodies, putErr \in RepositoryErrors :
          got' = [op |-> "PutNick", body |-> body, putErr |-> putErr,
                  res |-> Call(PutNick(body, putErr))]
    /\ UNCHANGED <<nicks, nickdata, pc, arg, ret, accepted>>

\* GET /nicks/:id
GetNickCall ==
    /\ got = NoAnswer
    /\ \E param \in IdParams, getReturn \in GetReturns, getErr \in RepositoryErrors :
          got' = [op |-> "GetNick", id |-> param, getReturn |-> getReturn,
                  getErr |-> getErr, res |-> Call(GetNick(param, getReturn, getErr))]
    /\ UNCHANGED <<nicks, nickdata, pc, arg, ret, accepted>>

HttpNext == PutNickCall \/ GetNickCall \/ Respond

\* the handlers over a repository that returns anything
HttpSpec == Init /\ [][HttpNext]_vars

\* the NickData json.Unmarshal fills: the claim of the body, or the empty
\* one it started from
Decoded(body, claim) == IF body = "claim" THEN claim ELSE NoClaim

\* BoltRepository.Put from call to return, for a server with one request at
\* a time
PutWhole(nickData, fail) ==
    IF PutCheck(nickData) # "nil"
    THEN [err |-> PutCheck(nickData), nicks |-> nicks, nickdata |-> nickdata]
    ELSE PutUpdate(nicks, nickdata, nickData, fail)

\* PUT /nicks served by the handler over the BoltRepository
ServePutNick ==
    /\ got = NoAnswer
    /\ \E body \in Bodies, c \in ClaimInputs, fail \in Failures :
          LET nickData == Decoded(body, c)
              u == PutWhole(nickData, fail)
              h == PutNick(body, u.err)
          IN  /\ got' = [op |-> "PutNick", body |-> body, putErr |-> u.err,
                         res |-> Call(h)]
              /\ nicks' = IF h.called THEN u.nicks ELSE nicks
              /\ nickdata' = IF h.called THEN u.nickdata ELSE nickdata
              /\ accepted' =
                    IF h.called /\ u.err = "nil"
                    THEN [id \in (DOMAIN accepted) \cup {nickData.Id} |->
                            IF id = nickData.Id THEN nickData ELSE accepted[id]]
                    ELSE accepted
    /\ UNCHANGED <<pc, arg, ret>>

ServeNext == ServePutNick \/ Respond

\* the server: the handler of PUT /nicks over the repository
ServeSpec == Init /\ [][ServeNext]_vars

(* ----------------- the write transaction, step by step ----------------- *)

\* positions of a caller inside the function Put passes to db.Update
InTx == {"nicks written", "both written"}

\* the buckets as the write transaction of p has them
TxNicks(p) ==
    IF pc[p] \in InTx THEN BucketPut(nicks, arg[p].Id, Marshal(arg[p])) ELSE nicks

TxNickData(p) ==
    IF pc[p] = "both written" THEN BucketPut(nickdata, arg[p].Id, Marshal(arg[p]))
    ELSE nickdata

\* a read transaction that reads the pages the writer is working on
View_Dirty ==
    IF \E p \in Procs : pc[p] \in InTx
    THEN LET p == CHOOSE w \in Procs : pc[w] \in InTx IN
         [nicks |-> TxNicks(p), nickdata |-> TxNickData(p)]
    ELSE [nicks |-> nicks, nickdata |-> nickdata]

\* the buckets as a read transaction (db.View) has them: as last committed
View == [nicks |-> nicks, nickdata |-> nickdata]

\* db.Update returns err without a commit, and Put returns
TxReturn(p, err) ==
    /\ pc' = [pc EXCEPT ![p] = "idle"]
    /\ ret' = [ret EXCEPT ![p] =
                 IF err = NickConflictErr \/ err = NewerNickDataPresentErr THEN err
                 ELSE UpdateFailedErr]
    /\ arg' = [arg EXCEPT ![p] = NoClaim]
    /\ UNCHANGED <<nicks, nickdata, got, accepted>>

\* db.Update takes the writer lock; the function checks the nick and the
\* previous nick data and puts into the bucket nicks
TxPutNicks(p) ==
    /\ got = NoAnswer
    /\ pc[p] = "update"
    /\ \A q \in Procs : pc[q] \notin InTx
    /\ LET existingId == BucketGet(nicks, arg[p].Nick)
           previousNickData == getNickData(nickdata, arg[p].Id)
       IN  IF existingId.found /\ ~CompareId(existingId.value, arg[p].Id)
           THEN TxReturn(p, NickConflictErr)
           ELSE IF previousNickData.found
                   /\ After(previousNickData.nickData.Time, arg[p].Time)
           THEN TxReturn(p, NewerNickDataPresentErr)
           ELSE \/ TxReturn(p, "nicks bucket put failed")
                \/ /\ pc' = [pc EXCEPT ![p] = "nicks written"]
                   /\ UNCHANGED <<nicks, nickdata, arg, ret, got, accepted>>

\* the function puts into the bucket nickdata
TxPutNickData(p) ==
    /\ got = NoAnswer
    /\ pc[p] = "nicks written"
    /\ \/ TxReturn(p, "nick data bucket put failed")
       \/ /\ pc' = [pc EXCEPT ![p] = "both written"]
          /\ UNCHANGED <<nicks, nickdata, arg, ret, got, accepted>>

\* db.Update commits what the function wrote, and Put returns
TxCommit(p) ==
    /\ got = NoAnswer
    /\ pc[p] = "both written"
    /\ \/ TxReturn(p, "commit failed")
       \/ /\ nicks' = TxNicks(p)
          /\ nickdata' = TxNickData(p)
          /\ pc' = [pc EXCEPT ![p] = "idle"]
          /\ ret' = [ret EXCEPT ![p] = "nil"]
          /\ accepted' = [id \in (DOMAIN accepted) \cup {arg[p].Id} |->
                            IF id = arg[p].Id THEN arg[p] ELSE accepted[id]]
          /\ arg' = [arg EXCEPT ![p] = NoClaim]
          /\ got' = got

\* Get and List in a read transaction of their own
SnapGet(id) ==
    /\ got = NoAnswer
    /\ got' = [op |-> "Get", id |-> id, view |-> GetView(id), seen |-> View,
               res |-> Get(View.nickdata, id)]
    /\ UNCHANGED <<nicks, nickdata, pc, arg, ret, accepted>>

SnapList ==
    /\ got = NoAnswer
    /\ got' = [op |-> "List", seen |-> View, res |-> List(View.nickdata)]
    /\ UNCHANGED <<nicks, nickdata, pc, arg, ret, accepted>>

SnapEnter(p) == got = NoAnswer /\ Enter(p)

SnapNext ==
    \/ \E p \in Procs : SnapEnter(p) \/ TxPutNicks(p) \/ TxPutNickData(p) \/ TxCommit(p)
    \/ \E id \in IdInputs : SnapGet(id)
    \/ SnapList
    \/ Respond

\* Puts with Get and List between the steps of their transactions
SnapSpec == Init /\ [][SnapNext]_vars

TypeOK ==
    /\ \A p \in Procs : pc[p] \in {"idle", "update"} \cup InTx
    /\ \A p \in Procs : pc[p] # "idle" => arg[p] \in ValidClaims
    /\ DOMAIN nicks = DOMAIN nickdata

(* ------------------- vocabulary of the properties --------------------- *)

\* the claim stored for an identity
Stored(id) == unmarshalNickData(nickdata[id])

StoredNext(id) == unmarshalNickData(nickdata'[id])

\* strictly earlier, on the instants themselves
Earlier(t, u) == t.sec < u.sec \/ (t.sec = u.sec /\ t.nsec < u.nsec)

\* a different identity's stored claim bears the nickname of claim c
HeldByOther(c) ==
    \E a \in DOMAIN nickdata : a # c.Id /\ Stored(a).Nick = c.Nick

\* caller p performs db.Update and returns in this step
Finishes(p) == pc[p] = "update" /\ pc'[p] = "idle"

Idle == \A p \in Procs : pc[p] = "idle"

(* ------------------------------ properties ----------------------------- *)

\* C1: no two stored claims of different identities carry the same
\* nickname.
C1_NicknameUnique ==
    \A a, b \in DOMAIN nickdata : a # b => Stored(a).Nick # Stored(b).Nick

\* C2: when another identity holds the nickname of a valid claim, the Put
\* of that claim returns NickConflictErr.
C2_ConflictReturned ==
    [][\A p \in Procs :
        (Finishes(p) /\ HeldByOther(arg[p])) => ret'[p] = NickConflictErr]_vars

\* C3: of two Puts racing with valid claims for one unheld nickname from
\* two identities, exactly one returns nil, the other returns
\* NickConflictErr, and only the winner's claim is stored.
C3_RaceOneWinner ==
    \A p, q \in Procs :
        ( /\ p # q /\ Idle
          /\ arg[p] \in ValidClaims /\ arg[q] \in ValidClaims
          /\ arg[p].Nick = arg[q].Nick /\ arg[p].Id # arg[q].Id
          /\ ret[p] # UpdateFailedErr /\ ret[q] # UpdateFailedErr
          /\ \A r \in Procs \ {p, q} : arg[r].Nick # arg[p].Nick )
        => \E w \in {p, q} : \E l \in {p, q} \ {w} :
              /\ ret[w] = "nil" /\ ret[l] = NickConflictErr
              /\ arg[w].Id \in DOMAIN nickdata /\ Stored(arg[w].Id) = arg[w]
              /\ arg[l].Id \notin DOMAIN nickdata

\* C4: every key of bucket "nicks" is the nickname of a stored claim and
\* maps to the identity storing it, and every stored claim's nickname is a
\* key of bucket "nicks".
C4_IndexConsistent ==
    /\ \A k \in DOMAIN nicks :
          \E id \in DOMAIN nickdata : Stored(id).Nick = k /\ nicks[k] = id
    /\ \A id \in DOMAIN nickdata : Stored(id).Nick \in DOMAIN nicks

\* C5: every stored claim passes Validate; a Put reaches db.Update only
\* with a claim that passes Validate, and a Put that returns before
\* db.Update returns InvalidNickDataErr and leaves both buckets alone.
C5_InvalidNeverAdmitted ==
    /\ [](\A id \in DOMAIN nickdata : Validate(Stored(id)) = "nil")
    /\ [][\A p \in Procs :
            pc[p] = "idle" =>
              /\ pc'[p] = "update" => Validate(arg'[p]) = "nil"
              /\ (pc'[p] = "idle" /\ ret'[p] # ret[p]) =>
                    /\ ret'[p] = InvalidNickDataErr
                    /\ nicks' = nicks /\ nickdata' = nickdata]_vars

C5_Witness ==
    /\ \E p \in Procs : ret[p] = InvalidNickDataErr
    /\ DOMAIN nickdata # {}

\* C6: with the nickname not held by another identity, Put returns
\* NewerNickDataPresentErr exactly when the identity's stored claim has a
\* strictly later timestamp.
C6_StaleStrict ==
    [][\A p \in Procs :
        (Finishes(p) /\ ~HeldByOther(arg[p])) =>
            ( ret'[p] = NewerNickDataPresentErr
              <=> ( /\ arg[p].Id \in DOMAIN nickdata
                    /\ Earlier(arg[p].Time, Stored(arg[p].Id).Time) ) )]_vars

\* a Put carrying the stored timestamp and another nick is about to be
\* decided
C6_Witness ==
    /\ \E p \in Procs :
          /\ pc[p] = "update" /\ arg[p].Id \in DOMAIN nickdata
          /\ Stored(arg[p].Id).Time = arg[p].Time
          /\ Stored(arg[p].Id).Nick # arg[p].Nick

\* C7: a Put for an identity whose stored claim is strictly older, with the
\* nickname not held by another identity and the storage not failing,
\* returns nil, and Get then returns the new claim, not the old one.
C7_FresherReplaces ==
    [][\A p \in Procs :
        ( /\ Finishes(p) /\ ~HeldByOther(arg[p])
          /\ arg[p].Id \in DOMAIN nickdata
          /\ Earlier(Stored(arg[p].Id).Time, arg[p].Time)
          /\ ret'[p] # UpdateFailedErr )
        => /\ ret'[p] = "nil"
           /\ Get(nickdata', arg[p].Id) =
                [found |-> TRUE, nickData |-> arg[p], err |-> "nil"]
           /\ Get(nickdata', arg[p].Id).nickData # Stored(arg[p].Id)]_vars

\* a Put with a later timestamp than the stored claim of its identity is
\* about to be decided
C7_Witness ==
    \E p \in Procs :
        /\ pc[p] = "update" /\ arg[p].Id \in DOMAIN nickdata
        /\ Earlier(Stored(arg[p].Id).Time, arg[p].Time)
        /\ ~HeldByOther(arg[p])

\* C8: a Put of the claim that is already the stored claim of its identity
\* returns nil (the storage not failing) and leaves both buckets as they are.
C8_Idempotent ==
    [][\A p \in Procs :
        ( /\ Finishes(p)
          /\ arg[p].Id \in DOMAIN nickdata /\ Stored(arg[p].Id) = arg[p]
          /\ ret'[p] # UpdateFailedErr )
        => /\ ret'[p] = "nil"
           /\ nicks' = nicks /\ nickdata' = nickdata]_vars

\* a second Put of the stored claim is about to be decided
C8_Witness ==
    \E p \in Procs :
        /\ pc[p] = "update" /\ arg[p].Id \in DOMAIN nickdata
        /\ Stored(arg[p].Id) = arg[p]

\* C9: an identity with a stored claim keeps one, and the timestamp of its
\* stored claim never decreases.
C9_Lifecycle ==
    [][\A id \in DOMAIN nickdata :
        /\ id \in DOMAIN nickdata'
        /\ ~Earlier(StoredNext(id).Time, Stored(id).Time)]_vars

\* a claim at a later second is stored and a stale Put has been rejected
C9_Witness ==
    /\ \E p \in Procs : ret[p] = NewerNickDataPresentErr
    /\ \E id \in DOMAIN nickdata : Stored(id).Time.sec > 1

\* C10: once the concurrent Puts have returned, an identity for which some
\* Put returned nil has exactly one stored claim, and its timestamp is the
\* greatest timestamp among that identity's Puts that returned nil.
C10_LatestWins ==
    Idle =>
      \A k \in Keys :
        LET id == Hash(k)
            ok == {p \in Procs : arg[p].Id = id /\ ret[p] = "nil"}
        IN  ok # {} =>
              /\ Cardinality({x \in DOMAIN nickdata : Stored(x).Id = id}) = 1
              /\ id \in DOMAIN nickdata
              /\ \A p \in ok : ~Earlier(Stored(id).Time, arg[p].Time)
              /\ \E p \in ok : Stored(id).Time = arg[p].Time

\* two Puts of one identity raced; the earlier claim lost to the later one
C10_Witness ==
    /\ Idle
    /\ \E p, q \in Procs :
          /\ p # q /\ arg[p].Id = arg[q].Id /\ arg[p] \in ValidClaims
          /\ ret[p] = "nil" /\ ret[q] = NewerNickDataPresentErr
          /\ Earlier(arg[q].Time, arg[p].Time)

\* C11: a Put that returns an error, before or after db.Update was entered
\* and wherever the storage failed, leaves both buckets as they were; and no
\* step changes one bucket without the other.
C11_FailedPutNoEffect ==
    [][/\ \A p \in Procs :
            \/ (Finishes(p) /\ ret'[p] # "nil")
            \/ (pc[p] = "idle" /\ pc'[p] = "idle" /\ ret'[p] # ret[p])
            => (nicks' = nicks /\ nickdata' = nickdata)
       /\ (nicks' # nicks) <=> (nickdata' # nickdata)]_vars

\* a Put has failed in the storage engine on a registry that holds a claim
C11_Witness ==
    /\ \E p \in Procs : ret[p] = UpdateFailedErr
    /\ DOMAIN nickdata # {}

\* C12: a valid claim that is stale for its identity and names a nickname
\* held by another identity is answered NickConflictErr, not
\* NewerNickDataPresentErr.
C12_ConflictBeforeStale ==
    [][\A p \in Procs :
        ( /\ Finishes(p) /\ HeldByOther(arg[p])
          /\ arg[p].Id \in DOMAIN nickdata
          /\ Earlier(arg[p].Time, Stored(arg[p].Id).Time) )
        => ret'[p] = NickConflictErr]_vars

\* C20: with the storage not failing, the Put of a valid claim whose
\* nickname no other identity holds and whose identity has no strictly
\* newer stored claim returns nil, after which bucket "nickdata" maps the
\* identity to the claim and bucket "nicks" maps the nickname to the identity.
C20_PutComplete ==
    [][\A p \in Procs :
        ( /\ Finishes(p) /\ ~HeldByOther(arg[p])
          /\ (arg[p].Id \in DOMAIN nickdata
                => ~Earlier(arg[p].Time, Stored(arg[p].Id).Time))
          /\ ret'[p] # UpdateFailedErr )
        => /\ ret'[p] = "nil"
           /\ arg[p].Id \in DOMAIN nickdata'
           /\ StoredNext(arg[p].Id) = arg[p]
           /\ arg[p].Nick \in DOMAIN nicks'
           /\ nicks'[arg[p].Nick] = arg[p].Id]_vars

\* C13: Get of a well-formed identity answers (nil, nil) when no Put of
\* that identity has returned nil, and otherwise answers, with a nil error,
\* the claim of the identity's latest Put that returned nil, which passes
\* Validate.
C13_GetLastAccepted ==
    (got.op = "Get" /\ ValidateId(got.id)) =>
        IF got.id \in DOMAIN accepted
        THEN /\ got.res = [found |-> TRUE, nickData |-> accepted[got.id], err |-> "nil"]
             /\ Validate(got.res.nickData) = "nil"
        ELSE got.res = [found |-> FALSE, err |-> "nil"]

\* Get has answered with the claim an identity put at a later second than
\* its first
C13_Witness ==
    /\ got.op = "Get" /\ got.res.found
    /\ got.res.nickData.Time.sec > 1
    /\ \E p \in Procs : ret[p] = "nil"

\* C14: Get of an id that fails the id check answers (nil,
\* InvalidNodeIdErr) whatever the buckets hold, and never opens the read
\* transaction.
C14_GetInvalidId ==
    (got.op = "Get" /\ Len(got.id) # IdLength) =>
        /\ got.res = [found |-> FALSE, err |-> InvalidNodeIdErr]
        /\ ~got.view

\* Get has refused a malformed id on a registry that holds a claim
C14_Witness ==
    /\ got.op = "Get" /\ Len(got.id) # IdLength
    /\ DOMAIN nickdata # {}

\* C15: List answers, with a nil error, a non-nil slice holding exactly one
\* claim for each identity that has had a Put return nil, that claim being
\* the one Get returns for the identity; on an empty registry the slice is
\* empty.
C15_ListStored ==
    got.op = "List" =>
        /\ got.res.err = "nil"
        /\ ~got.res.isNil
        /\ Len(got.res.list) = Cardinality(DOMAIN accepted)
        /\ {got.res.list[i] : i \in 1..Len(got.res.list)}
              = {accepted[id] : id \in DOMAIN accepted}
        /\ \A i \in 1..Len(got.res.list) :
              Get(nickdata, got.res.list[i].Id) =
                [found |-> TRUE, nickData |-> got.res.list[i], err |-> "nil"]

\* List has answered with the claims of two identities
C15_Witness ==
    /\ got.op = "List"
    /\ Len(got.res.list) = 2

Letters == (65..90) \cup (97..122)

Digits == 48..57

\* 3 to 20 characters, a letter first, then letters, digits, _ - [ ]
NickWellFormed(nick) ==
    /\ Len(nick) >= 3 /\ Len(nick) <= 20
    /\ nick[1] \in Letters
    /\ \A i \in 2..Len(nick) : nick[i] \in Letters \cup Digits \cup {95, 45, 91, 93}

\* C16: ValidateNick returns nil exactly for the nicknames of 3 to 20
\* characters that start with a letter and go on with letters, digits, '_',
\* '-', '[' or ']'.
C16_ValidateNickExact ==
    got.op = "ValidateNick" => (got.err = "nil" <=> NickWellFormed(got.nick))

\* ValidateNick has accepted a nickname of 20 characters ending in ']'
C16_Witness ==
    /\ got.op = "ValidateNick" /\ got.err = "nil"
    /\ Len(got.nick) = 20 /\ got.nick[20] = 93

\* a claim whose key decodes, whose id is well-formed and is the hash of the
\* key, whose nick is well-formed, whose time is set and whose signature is
\* the key's over GetDataToSign
Authentic(n) ==
    /\ n.PublicKey \in Keys
    /\ Len(n.Id) = IdLength
    /\ n.Id = Hash(n.PublicKey)
    /\ NickWellFormed(n.Nick)
    /\ n.Time # ZeroTime
    /\ n.Signature = Sign(n.PublicKey, GetDataToSign(n))

\* C17: Validate returns nil exactly for the claims that are well-formed
\* and authentic, and an error as soon as one of the conditions fails.
C17_ValidateExact ==
    got.op = "Validate" => (got.err = "nil" <=> Authentic(got.claim))

\* Validate has refused a claim that is in order but for its zero time,
\* signed as it is
C17_Witness ==
    /\ got.op = "Validate" /\ got.err # "nil"
    /\ got.claim.Time = ZeroTime
    /\ Authentic([got.claim EXCEPT !.Time = [sec |-> 1, nsec |-> 0],
                                   !.Signature = Sign(got.claim.PublicKey,
                                       GetDataToSign([got.claim EXCEPT !.Time = [sec |-> 1, nsec |-> 0]]))])
    /\ got.claim.Signature = Sign(got.claim.PublicKey, GetDataToSign(got.claim))

ClientErrors ==
    {"invalid nick data", "newer nick data is available", "nick is already taken",
     "invalid node id"}

\* C18: once Put is called, the status of PUT /nicks is 200 for nil, 400
\* for the four errors a client causes and 500 for any other error.
C18_PutStatus ==
    (got.op = "PutNick" /\ got.res.called) =>
        got.res.code = (IF got.putErr = "nil" THEN 200
                        ELSE IF got.putErr \in ClientErrors THEN 400
                        ELSE 500)

\* PUT /nicks has answered 400 to an invalid node id from Put
C18_Witness ==
    /\ got.op = "PutNick" /\ got.res.called
    /\ got.putErr = InvalidNodeIdErr /\ got.res.code = 400

HexChars == (48..57) \cup (97..102) \cup (65..70)

\* a text of hexadecimal digits, two for each byte
IsHexadecimal(s) == Len(s) % 2 = 0 /\ \A i \in 1..Len(s) : s[i] \in HexChars

\* the status and body of GET /nicks/:id when id names the node
GetAnswer(id) ==
    IF ~IsHexadecimal(id) THEN ~got.res.called /\ got.res.code = 400
    ELSE /\ got.res.called
         /\ IF got.getErr \in ClientErrors THEN got.res.code = 400
            ELSE IF got.getErr # "nil" THEN got.res.code = 500
            ELSE IF got.getReturn.isNil THEN got.res.code = 404
            ELSE got.res.code = 200 /\ got.res.body = Marshal(got.getReturn.nickData)

\* C19 as stated: the :id of the path is what has to be hexadecimal.
C19_GetStatusOfParam == got.op = "GetNick" => GetAnswer(got.id)

\* C19: GET /nicks/:id answers 400 without calling the repository when the
\* id, less a trailing ".json", is not hexadecimal; otherwise 400 for an
\* error a client causes, 500 for any other error, 404 for no claim and no
\* error, and 200 with the claim as the body for a claim.
C19_GetStatus == got.op = "GetNick" => GetAnswer(TrimSuffix(got.id, DotJson))

\* GET /nicks/abcd.json has answered 200 with the claim
C19_Witness ==
    /\ got.op = "GetNick" /\ got.id = <<97, 98, 99, 100>> \o DotJson
    /\ got.res.code = 200 /\ ~got.getReturn.isNil
    /\ got.res.body = Marshal(got.getReturn.nickData)

\* the checks of a claim in their order: for each, whether the claim fails it
Failing(n) ==
    LET keyOk == n.PublicKey \in Keys IN
    << ~keyOk,
       Len(n.Id) # IdLength,
       IF keyOk THEN n.Id # Hash(n.PublicKey) ELSE TRUE,
       ~NickWellFormed(n.Nick),
       n.Time = ZeroTime,
       IF keyOk THEN n.Signature # Sign(n.PublicKey, GetDataToSign(n)) ELSE TRUE >>

\* the error of each check, in the same order
CheckErrors ==
    << "could not read the public key", "id is invalid",
       "id does not match the public key", "invalid nick", "time is zero",
       "could not validate the signature" >>

FailedChecks(n) == {i \in 1..6 : Failing(n)[i]}

\* C21: the error Validate returns is that of the earliest failing check in
\* the order public key, identity format, identity equals the hash of the
\* key, nickname, zero time, signature.
C21_FirstFailure ==
    (got.op = "Validate" /\ FailedChecks(got.claim) # {}) =>
        \E i \in FailedChecks(got.claim) :
            /\ \A j \in FailedChecks(got.claim) : i <= j
            /\ got.err = CheckErrors[i]

\* Validate has reported "id is invalid" for a claim with a decodable key,
\* a nil id, a bad nick and a zero time
C21_Witness ==
    /\ got.op = "Validate" /\ got.err = "id is invalid"
    /\ got.claim.PublicKey \in Keys /\ got.claim.Id = <<>>
    /\ {2, 4, 5} \subseteq FailedChecks(got.claim)

\* no body, an empty body, and a body that is JSON but no object
NoClaimBodies == {"nil", "", "[]"}

\* C22: PUT /nicks with a missing body or one that does not decode as a
\* claim answers 400 without calling Put, and leaves both buckets as they
\* were.
C22_BadBodyNoPut ==
    [][(got = NoAnswer /\ got'.op = "PutNick" /\ got'.body \in NoClaimBodies) =>
          /\ got'.res.code = 400
          /\ ~got'.res.called
          /\ nicks' = nicks /\ nickdata' = nickdata]_vars

\* PUT /nicks with the body [] has been answered 400 by a server that
\* holds a claim
C22_Witness ==
    /\ got.op = "PutNick" /\ got.body = "[]"
    /\ got.res.code = 400 /\ ~got.res.called
    /\ nickdata # EmptyBucket

\* the keys of either bucket, before or after the step, other than id
OtherKeys(id) ==
    ((DOMAIN nickdata) \cup (DOMAIN nicks) \cup (DOMAIN nickdata') \cup (DOMAIN nicks'))
        \ {id}

\* C24: a Put that returns nil for an identity leaves the stored claim and
\* the nick entry of every other identity as they were.
C24_OnlyOwnData ==
    [][\A p \in Procs :
          (Finishes(p) /\ ret'[p] = "nil") =>
              \A k \in OtherKeys(arg[p].Id) :
                  /\ BucketGet(nickdata', k) = BucketGet(nickdata, k)
                  /\ BucketGet(nicks', k) = BucketGet(nicks, k)]_vars

\* a Put has returned nil with the claims of two identities stored
C24_Witness ==
    /\ \E p \in Procs : ret[p] = "nil"
    /\ Cardinality(DOMAIN nickdata) = 2
    /\ Cardinality(DOMAIN nicks) = 2

\* the caller's Put is past its validation
Validated(p) == pc[p] = "update" \/ ret[p] # "none"

CompleteStates ==
    {[nicks |-> nicks, nickdata |-> nickdata]} \cup
    {[nicks |-> BucketPut(nicks, arg[p].Id, Marshal(arg[p])),
      nickdata |-> BucketPut(nickdata, arg[p].Id, Marshal(arg[p]))] :
        p \in {w \in Procs : pc[w] \in InTx}}

====
